---- MODULE Spec2Model ----
(***************************************************************************)
(* Model of the stormwater-analysis core: the conduit enrichment pipeline  *)
(* (DataManager / ConduitsData), the overflow-window extraction of         *)
(* SwmmModel.overflowing_traces, and the lazily built max-slope table.     *)
(*                                                                         *)
(* Numbers are fixed-point integers with three decimals (Scale = 1000):    *)
(* 0.5 m is 500, a slope of 0.01 ft/ft is 10, 10 per mille is 10000.       *)
(* A pandas NaN/None cell is Null (<<>>); a nullable cell that holds the   *)
(* number v is <<v>>.                                                      *)
(***************************************************************************)
EXTENDS Integers, Sequences, FiniteSets, TLC

VARIABLES
    df_conduits,   \* DataManager.df_conduits: row index -> (column name -> cell)
    df_nodes,      \* DataManager.df_nodes: node id -> [MaxDepth]
    frost_zone,    \* DataManager.frost_zone: the str "I" until set_frost_zone, then a depth
    err,           \* how the last call ended: NoErr, or the exception and the step that raised it
    pc,            \* SwmmModel.overflowing_traces: "start", "traced" (all_traces returned), "done"
    traces,        \* what all_traces returned: outfall -> list of conduit ids
    overflowing,   \* what overflowing_traces returned: outfall -> list of conduit ids
    lazy_object,   \* max_slopes: the table the LazyObject holds, Null until it is built
    lazy_lock,     \* the thread that is building the table, 0 when none is
    builds,        \* how many times the factory of max_slopes has run
    tpc,           \* per thread: "idle", "enter", "wait", "build" or "read"
    key,           \* per thread: the diameter it looks up
    got,           \* per thread: the last value it read, Null before
    call,          \* the function of pipes/ last called on its own, with its arguments
    ret,           \* how that call ended: the value returned or the exception raised
    loop           \* max_slope: the locals of the search and where it stands

pipeVars == <<df_nodes, frost_zone, err>>

traceVars == <<pc, traces, overflowing>>

lazyVars == <<lazy_object, lazy_lock, builds, tpc, key, got>>

fnVars == <<call, ret, loop>>

vars == <<df_conduits, df_nodes, frost_zone, err, pc, traces, overflowing,
          lazy_object, lazy_lock, builds, tpc, key, got, call, ret, loop>>

----------------------------------------------------------------------------
(* Bounds *)

NRows == 2

----------------------------------------------------------------------------
(* Fixed-point arithmetic and NaN cells *)

Scale == 1000

Mul(a, b) == (a * b) \div Scale

Null == <<>>

Val(v) == <<v>>

NAdd(a, b) == IF a = Null \/ b = Null THEN Null ELSE Val(a[1] + b[1])

NSub(a, b) == IF a = Null \/ b = Null THEN Null ELSE Val(a[1] - b[1])

\* a comparison with NaN is False
NLe(a, b) == a # Null /\ b # Null /\ a[1] <= b[1]

Bool2Int(b) == IF b THEN 1 ELSE 0

----------------------------------------------------------------------------
(* pipes/round.py: thresholds and solvers *)

max_velocity == 5000

min_velocity == 700

max_depth_value == 8000

MinDiameter == 200

MaxDiameter == 2000

MaxFillingFactor == 827

\* theta / g = 1.5 / 9.81, in units of 1e-6
ThetaOverG == 152905

\* check_dimensions: "ok", or the exception it raises (all cells here are numeric)
check_dimensions(filling, diameter) ==
    IF filling > diameter THEN "ValueError"
    ELSE IF ~(0 <= filling /\ filling <= MaxDiameter
              /\ MinDiameter <= diameter /\ diameter <= MaxDiameter) THEN "ValueError"
    ELSE "ok"

\* max_filling raises ValueError outside [0.2, 2.0]
max_filling_err(diameter) ==
    IF MinDiameter <= diameter /\ diameter <= MaxDiameter THEN "ok" ELSE "ValueError"

\* filling <= 0.827 * diameter, compared without rounding
validate_filling(filling, diameter) == filling * Scale <= MaxFillingFactor * diameter

validate_max_velocity(velocity) == velocity <= max_velocity

validate_min_velocity(velocity) == velocity >= min_velocity

\* The wetted area of a circular segment grows with the square of the
\* diameter and its arc with the diameter; the trigonometry of calc_f and
\* calc_u is tabulated for the filling ratios 0, 1/4, 1/2, 9/10 and 1:
\* area / diameter^2 in 1e-6 and arc / diameter in 1e-5.
AreaFactor(filling, diameter) ==
    CASE filling = 0 -> 0
      [] filling # 0 /\ 4 * filling = diameter -> 153546
      [] filling # 0 /\ 2 * filling = diameter -> 392699
      [] filling # 0 /\ 10 * filling = 9 * diameter -> 744523
      [] filling # 0 /\ filling = diameter -> 785398

ArcFactor(filling, diameter) ==
    CASE filling = 0 -> 0
      [] filling # 0 /\ 4 * filling = diameter -> 104720
      [] filling # 0 /\ 2 * filling = diameter -> 157080
      [] filling # 0 /\ 10 * filling = 9 * diameter -> 249809
      [] filling # 0 /\ filling = diameter -> 314159

\* calc_f: the wetted area, in units of 10 mm2
calc_f(filling, diameter) ==
    (((AreaFactor(filling, diameter) * diameter) \div 10000) * diameter) \div 1000

\* calc_u: the wetted perimeter, in units of 0.01 mm
calc_u(filling, diameter) == (ArcFactor(filling, diameter) * diameter) \div 1000

\* area / perimeter in units of 1e-6 m, divided in two steps to stay in 32 bits
Quotient(f, u) ==
    ((f * 1000) \div u) * 1000 + (((f * 1000) % u) * 1000) \div u

\* an except clause that answers with the radius of the full pipe
calc_rh_full_pipe(filling, diameter) ==
    IF calc_u(filling, diameter) = 0 THEN 250 * diameter
    ELSE Quotient(calc_f(filling, diameter), calc_u(filling, diameter))

\* calc_rh = calc_f / calc_u, in units of 1e-6 m; the ZeroDivisionError of
\* 0.0 / 0.0 (an empty pipe) is caught and 0 is returned
calc_rh(filling, diameter) ==
    IF calc_u(filling, diameter) = 0 THEN 0
    ELSE Quotient(calc_f(filling, diameter), calc_u(filling, diameter))

\* min_slope: "ok", or the exception raised (the division by calc_rh = 0)
min_slope_err(filling, diameter) ==
    IF check_dimensions(filling, diameter) # "ok" THEN check_dimensions(filling, diameter)
    ELSE IF calc_rh(filling, diameter) = 0 THEN "ZeroDivisionError"
    ELSE "ok"

\* 4*(theta/g)*((d/4)/Rh)*(1/d) = (theta/g)/Rh
min_slope(filling, diameter) == (ThetaOverG * Scale) \div calc_rh(filling, diameter)

\* max_slopes: the catalog diameters, and for each the value of max_slope(d)
\* rounded to two decimals
Catalog == {200, 300, 400, 500, 600, 700, 800, 900, 1000, 1200, 1500, 2000}

max_slopes(d) ==
    CASE d = 200 -> 232420 [] d = 300 -> 134560 [] d = 400 -> 91740
      [] d = 500 -> 67890  [] d = 600 -> 54030  [] d = 700 -> 43250
      [] d = 800 -> 36030  [] d = 900 -> 30750  [] d = 1000 -> 26800
      [] d = 1200 -> 21150 [] d = 1500 -> 15700 [] d = 2000 -> 10700

----------------------------------------------------------------------------
(* pipes/valid_round.py: slope validators *)

validate_max_slope_err(slope, diameter) ==
    IF slope <= 0 THEN "ValueError"
    ELSE IF diameter \notin Catalog THEN "ValueError"
    ELSE "ok"

validate_max_slope(slope, diameter) == slope <= max_slopes(diameter)

validate_min_slope_err(slope, filling, diameter) == min_slope_err(filling, diameter)

validate_min_slope(slope, filling, diameter) == slope >= min_slope(filling, diameter)

----------------------------------------------------------------------------
(* The conduit table *)

Rows == DOMAIN df_conduits

\* every row has the same columns
Cols == DOMAIN df_conduits[1]

HasCols(df, cs) == cs \subseteq DOMAIN df[1]

Merge(r, n) == [c \in DOMAIN r \cup DOMAIN n |-> IF c \in DOMAIN n THEN n[c] ELSE r[c]]

\* df[name] = values, for the columns of the row-indexed records in new
AddCols(df, new) == [i \in DOMAIN df |-> Merge(df[i], new[i])]

\* the outcome of a call: the table as the call left it and the exception, if
\* any, with the step that raised it
NoErr == [step |-> "", exc |-> "none"]

Ok(df) == [df |-> df, err |-> NoErr]

Raise(df, step, e) == [df |-> df, err |-> [step |-> step, exc |-> e]]

\* DataFrame.apply(f, axis=1): the exception of the first row that raises, or "ok"
FirstErr(df, RowErr(_)) ==
    IF \A i \in DOMAIN df : RowErr(df[i]) = "ok" THEN "ok"
    ELSE LET bad == {i \in DOMAIN df : RowErr(df[i]) # "ok"}
             first == CHOOSE i \in bad : \A j \in bad : i <= j
         IN  RowErr(df[first])

\* a join that fills the depth of an unknown node with 0
MapMaxDepth_fill_zero(nodes, node) ==
    IF node \in DOMAIN nodes THEN nodes[node].MaxDepth ELSE Val(0)

\* Series.map(other Series): NaN for a key the other Series does not have
MapMaxDepth(nodes, node) == IF node \in DOMAIN nodes THEN nodes[node].MaxDepth ELSE Null

----------------------------------------------------------------------------
(* DataManager: the enrichment steps, each a function of the table *)

conduits_calculate_conduit_filling(df) ==
    Ok(AddCols(df, [i \in DOMAIN df |-> [Filling |-> Mul(df[i].MaxDPerc, df[i].Geom1)]]))

\* a validity step that takes an absent Filling for 0
conduits_filling_is_valid_default(df) ==
    LET Filling(r) == IF "Filling" \in DOMAIN r THEN r.Filling ELSE 0
        RowErr(r) == max_filling_err(r.Geom1)
    IN  IF FirstErr(df, RowErr) # "ok" THEN Raise(df, "conduits_filling_is_valid", FirstErr(df, RowErr))
        ELSE Ok(AddCols(df, [i \in DOMAIN df |->
               [ValMaxFill |-> Bool2Int(validate_filling(Filling(df[i]), df[i].Geom1))]]))

conduits_filling_is_valid(df) ==
    IF ~HasCols(df, {"Filling"}) THEN Raise(df, "conduits_filling_is_valid", "MissingColumn")
    ELSE LET RowErr(r) == max_filling_err(r.Geom1)
         IN  IF FirstErr(df, RowErr) # "ok" THEN Raise(df, "conduits_filling_is_valid", FirstErr(df, RowErr))
             ELSE Ok(AddCols(df, [i \in DOMAIN df |->
                    [ValMaxFill |-> Bool2Int(validate_filling(df[i].Filling, df[i].Geom1))]]))

conduits_velocity_is_valid(df) ==
    Ok(AddCols(df, [i \in DOMAIN df |->
        [ValMaxV |-> Bool2Int(validate_max_velocity(df[i].MaxV)),
         ValMinV |-> Bool2Int(validate_min_velocity(df[i].MaxV))]]))

\* a conversion that rewrites the slope column in per mille as well
conduits_slope_per_mile_in_place(df) ==
    Ok(AddCols(df, [i \in DOMAIN df |-> [SlopePerMile |-> df[i].SlopeFtPerFt * 1000,
                                         SlopeFtPerFt |-> df[i].SlopeFtPerFt * 1000]]))

conduits_slope_per_mile(df) ==
    Ok(AddCols(df, [i \in DOMAIN df |-> [SlopePerMile |-> df[i].SlopeFtPerFt * 1000]]))

\* a slope step that takes an absent Filling for 0
conduits_slopes_is_valid_default(df) ==
    LET Filling(r) == IF "Filling" \in DOMAIN r THEN r.Filling ELSE 0
        MaxErr(r) == validate_max_slope_err(r.SlopeFtPerFt * 1000, r.Geom1)
        df1 == AddCols(df, [i \in DOMAIN df |->
                 [ValMaxSlope |-> Bool2Int(validate_max_slope(df[i].SlopeFtPerFt * 1000, df[i].Geom1))]])
        MinErr(r) == validate_min_slope_err(r.SlopeFtPerFt * 1000, Filling(r), r.Geom1)
    IN  IF FirstErr(df, MaxErr) # "ok" THEN Raise(df, "conduits_slopes_is_valid", FirstErr(df, MaxErr))
        ELSE IF FirstErr(df1, MinErr) # "ok" THEN Raise(df1, "conduits_slopes_is_valid", FirstErr(df1, MinErr))
        ELSE Ok(AddCols(df1, [i \in DOMAIN df |->
                 [ValMinSlope |-> Bool2Int(validate_min_slope(df[i].SlopeFtPerFt * 1000,
                                                              Filling(df[i]), df[i].Geom1))]]))

\* a slope step that assigns both columns at once, after both passes
conduits_slopes_is_valid_atomic(df) ==
    LET MaxErr(r) == validate_max_slope_err(r.SlopeFtPerFt * 1000, r.Geom1)
        MinErr(r) == validate_min_slope_err(r.SlopeFtPerFt * 1000, r.Filling, r.Geom1)
    IN  IF FirstErr(df, MaxErr) # "ok" THEN Raise(df, "conduits_slopes_is_valid", FirstErr(df, MaxErr))
        ELSE IF ~HasCols(df, {"Filling"}) THEN Raise(df, "conduits_slopes_is_valid", "MissingColumn")
        ELSE IF FirstErr(df, MinErr) # "ok" THEN Raise(df, "conduits_slopes_is_valid", FirstErr(df, MinErr))
        ELSE Ok(AddCols(df, [i \in DOMAIN df |->
                 [ValMaxSlope |-> Bool2Int(validate_max_slope(df[i].SlopeFtPerFt * 1000, df[i].Geom1)),
                  ValMinSlope |-> Bool2Int(validate_min_slope(df[i].SlopeFtPerFt * 1000,
                                                              df[i].Filling, df[i].Geom1))]]))

\* two assignments: ValMaxSlope is already in the table when the second raises
conduits_slopes_is_valid(df) ==
    LET MaxErr(r) == validate_max_slope_err(r.SlopeFtPerFt * 1000, r.Geom1)
        df1 == AddCols(df, [i \in DOMAIN df |->
                 [ValMaxSlope |-> Bool2Int(validate_max_slope(df[i].SlopeFtPerFt * 1000, df[i].Geom1))]])
        MinErr(r) == validate_min_slope_err(r.SlopeFtPerFt * 1000, r.Filling, r.Geom1)
    IN  IF FirstErr(df, MaxErr) # "ok" THEN Raise(df, "conduits_slopes_is_valid", FirstErr(df, MaxErr))
        ELSE IF ~HasCols(df1, {"Filling"}) THEN Raise(df1, "conduits_slopes_is_valid", "MissingColumn")
        ELSE IF FirstErr(df1, MinErr) # "ok" THEN Raise(df1, "conduits_slopes_is_valid", FirstErr(df1, MinErr))
        ELSE Ok(AddCols(df1, [i \in DOMAIN df |->
                 [ValMinSlope |-> Bool2Int(validate_min_slope(df[i].SlopeFtPerFt * 1000,
                                                              df[i].Filling, df[i].Geom1))]]))

conduits_max_depth(df, nodes) ==
    Ok(AddCols(df, [i \in DOMAIN df |->
        [InletMaxDepth  |-> MapMaxDepth(nodes, df[i].InletNode),
         OutletMaxDepth |-> MapMaxDepth(nodes, df[i].OutletNode)]]))

\* a fallback that recomputes the outlet depth of every row
conduits_calculate_max_depth_all_rows(df) ==
    IF ~HasCols(df, {"OutletMaxDepth", "InletMaxDepth"}) THEN Raise(df, "conduits_calculate_max_depth", "MissingColumn")
    ELSE Ok(AddCols(df, [i \in DOMAIN df |->
            [OutletMaxDepth |->
                NSub(df[i].InletMaxDepth, Val(Mul(df[i].Length, df[i].SlopeFtPerFt)))]]))

conduits_calculate_max_depth(df) ==
    IF ~HasCols(df, {"OutletMaxDepth", "InletMaxDepth"}) THEN Raise(df, "conduits_calculate_max_depth", "MissingColumn")
    ELSE Ok(AddCols(df, [i \in DOMAIN df |->
            [OutletMaxDepth |->
                IF df[i].OutletMaxDepth = Null
                THEN NSub(df[i].InletMaxDepth, Val(Mul(df[i].Length, df[i].SlopeFtPerFt)))
                ELSE df[i].OutletMaxDepth]]))

conduits_ground_elevation(df) ==
    IF ~HasCols(df, {"InletMaxDepth", "OutletMaxDepth"}) THEN Raise(df, "conduits_ground_elevation", "MissingColumn")
    ELSE Ok(AddCols(df, [i \in DOMAIN df |->
            [InletGroundElevation  |-> NAdd(Val(df[i].InletNodeInvert), df[i].InletMaxDepth),
             OutletGroundElevation |-> NAdd(Val(df[i].OutletNodeInvert), df[i].OutletMaxDepth)]]))

conduits_ground_cover(df) ==
    IF ~HasCols(df, {"InletGroundElevation", "OutletGroundElevation"}) THEN Raise(df, "conduits_ground_cover", "MissingColumn")
    ELSE Ok(AddCols(df, [i \in DOMAIN df |->
            [InletGroundCover  |-> NSub(NSub(df[i].InletGroundElevation, Val(df[i].InletNodeInvert)),
                                        Val(df[i].Geom1)),
             OutletGroundCover |-> NSub(NAdd(df[i].OutletGroundElevation, Val(df[i].OutletNodeInvert)),
                                        Val(df[i].Geom1))]]))

\* a validation that counts the ends that pass instead of and-ing them
conduits_depth_is_valid_count(df) ==
    IF ~HasCols(df, {"InletGroundElevation", "OutletGroundElevation"}) THEN Raise(df, "conduits_depth_is_valid", "MissingColumn")
    ELSE Ok(AddCols(df, [i \in DOMAIN df |->
            [ValDepth |->
                  Bool2Int(NLe(Val(df[i].InletNodeInvert - max_depth_value), df[i].InletGroundElevation))
                + Bool2Int(NLe(Val(df[i].OutletNodeInvert - max_depth_value), df[i].OutletGroundElevation))]]))

\* a validation that looks at the inlet end only
conduits_depth_is_valid_inlet_only(df) ==
    IF ~HasCols(df, {"InletGroundElevation", "OutletGroundElevation"}) THEN Raise(df, "conduits_depth_is_valid", "MissingColumn")
    ELSE Ok(AddCols(df, [i \in DOMAIN df |->
            [ValDepth |-> Bool2Int(
                  NLe(Val(df[i].InletNodeInvert - max_depth_value), df[i].InletGroundElevation))]]))

conduits_depth_is_valid(df) ==
    IF ~HasCols(df, {"InletGroundElevation", "OutletGroundElevation"}) THEN Raise(df, "conduits_depth_is_valid", "MissingColumn")
    ELSE Ok(AddCols(df, [i \in DOMAIN df |->
            [ValDepth |-> Bool2Int(
                  NLe(Val(df[i].InletNodeInvert - max_depth_value), df[i].InletGroundElevation)
               /\ NLe(Val(df[i].OutletNodeInvert - max_depth_value), df[i].OutletGroundElevation))]]))

\* the attribute frost_zone holds a str ([str |-> s]) or a number ([num |-> v])
Str(s) == [str |-> s]

Num(v) == [num |-> v]

IsStr(x) == "str" \in DOMAIN x

\* a call ends with the value it returns (Ret) or the exception it raises (Exc)
Ret(v) == [val |-> v]

Exc(e) == [exc |-> e]

IsExc(r) == "exc" \in DOMAIN r

\* isinstance(x, (int, float))
IsNumber(x) == "num" \in DOMAIN x

\* a check that validates the diameter before it looks at the filling
call_check_dimensions_diameter_first(filling, diameter) ==
    IF ~IsNumber(diameter) THEN Exc("TypeError")
    ELSE IF max_filling_err(diameter.num) # "ok" THEN Exc("ValueError")
    ELSE IF ~IsNumber(filling) THEN Exc("TypeError")
    ELSE IF check_dimensions(filling.num, diameter.num) # "ok"
         THEN Exc(check_dimensions(filling.num, diameter.num))
    ELSE Ret(TRUE)

\* check_dimensions: the two isinstance checks, then the two range checks
call_check_dimensions(filling, diameter) ==
    IF ~IsNumber(filling) THEN Exc("TypeError")
    ELSE IF ~IsNumber(diameter) THEN Exc("TypeError")
    ELSE IF check_dimensions(filling.num, diameter.num) # "ok"
         THEN Exc(check_dimensions(filling.num, diameter.num))
    ELSE Ret(TRUE)

\* min_slope: check_dimensions, then the division by calc_rh
call_min_slope(filling, diameter) ==
    IF IsExc(call_check_dimensions(filling, diameter))
    THEN call_check_dimensions(filling, diameter)
    ELSE IF min_slope_err(filling.num, diameter.num) # "ok"
         THEN Exc(min_slope_err(filling.num, diameter.num))
    ELSE Ret(min_slope(filling.num, diameter.num))

\* a column of the table, passed where a number is expected
Series(col) == [series |-> col]

\* SwmmModel.optimize_conduit_slope: SlopeFtPerFt = min_slope(Filling, Geom1),
\* min_slope being called once, with the two columns
optimize_conduit_slope(df) ==
    LET r == call_min_slope(Series("Filling"), Series("Geom1"))
    IN  IF IsExc(r) THEN Raise(df, "optimize_conduit_slope", r.exc)
        ELSE Ok(AddCols(df, [i \in DOMAIN df |-> [SlopeFtPerFt |-> r.val]]))

\* a validation that is content with one covered end
conduits_coverage_is_valid_either(df, fz) ==
    IF ~HasCols(df, {"InletGroundCover", "OutletGroundCover"}) THEN Raise(df, "conduits_coverage_is_valid", "MissingColumn")
    ELSE IF IsStr(fz) THEN Raise(df, "conduits_coverage_is_valid", "TypeError")
    ELSE Ok(AddCols(df, [i \in DOMAIN df |->
            [ValCoverage |-> Bool2Int(NLe(Val(fz.num), df[i].InletGroundCover)
                                   \/ NLe(Val(fz.num), df[i].OutletGroundCover))]]))

\* frost_zone is still the category string when set_frost_zone has not run
conduits_coverage_is_valid(df, fz) ==
    IF ~HasCols(df, {"InletGroundCover", "OutletGroundCover"}) THEN Raise(df, "conduits_coverage_is_valid", "MissingColumn")
    ELSE IF IsStr(fz) THEN Raise(df, "conduits_coverage_is_valid", "TypeError")
    ELSE Ok(AddCols(df, [i \in DOMAIN df |->
            [ValCoverage |-> Bool2Int(NLe(Val(fz.num), df[i].InletGroundCover)
                                   /\ NLe(Val(fz.num), df[i].OutletGroundCover))]]))

\* a lookup of the category as it was given
Upper_as_given(s) == s

\* set_frost_zone: categories.get(frost_zone.upper(), 1.2)
Upper(s) ==
    CASE s \in {"I", "i"} -> "I"
      [] s \in {"II", "ii", "Ii"} -> "II"
      [] s \in {"III", "iii"} -> "III"
      [] s \in {"IV", "iv", "iV"} -> "IV"
      [] OTHER -> "INVALID"

\* a table that holds the depth of category II for every category
categories_all_II(c) == 1200

categories(c) ==
    CASE c = "I" -> 1000 [] c = "II" -> 1200 [] c = "III" -> 1400 [] c = "IV" -> 1600
      [] OTHER -> 1200

set_frost_zone(cat) == Num(categories(Upper(cat)))

\* feature_engineering: the steps in the order of the method; an exception
\* ends the run and leaves the table as the failing step left it
Then(res, Step(_)) == LET r == res IN IF r.err # NoErr THEN r ELSE Step(r.df)

\* a pipeline that validates the slopes before it computes the filling
feature_engineering_slopes_first(df, nodes, fz) ==
    LET MaxDepthStep(d) == conduits_max_depth(d, nodes)
        CoverageStep(d) == conduits_coverage_is_valid(d, fz)
    IN  Then(Then(Then(Then(Then(Then(Then(Then(Then(Then(
          conduits_slopes_is_valid(df),
          conduits_calculate_conduit_filling),
          conduits_filling_is_valid),
          conduits_velocity_is_valid),
          conduits_slope_per_mile),
          MaxDepthStep),
          conduits_calculate_max_depth),
          conduits_ground_elevation),
          conduits_ground_cover),
          conduits_depth_is_valid),
          CoverageStep)

feature_engineering(df, nodes, fz) ==
    LET MaxDepthStep(d) == conduits_max_depth(d, nodes)
        CoverageStep(d) == conduits_coverage_is_valid(d, fz)
    IN  Then(Then(Then(Then(Then(Then(Then(Then(Then(Then(
          conduits_calculate_conduit_filling(df),
          conduits_filling_is_valid),
          conduits_velocity_is_valid),
          conduits_slope_per_mile),
          conduits_slopes_is_valid),
          MaxDepthStep),
          conduits_calculate_max_depth),
          conduits_ground_elevation),
          conduits_ground_cover),
          conduits_depth_is_valid),
          CoverageStep)

----------------------------------------------------------------------------
(* pipes/round.py: max_slopes = LazyObject(lambda: {...}) *)

NThreads == 2

Threads == 1..NThreads

\* the factory: the dict of max_slope(d) for the catalog diameters
max_slopes_factory == [d \in Catalog |-> max_slopes(d)]

\* no function of pipes/ has been called on its own
\* max_slope is not running
NoSearch == [pc |-> "idle", diameter |-> 0, start_slope |-> 0, slope |-> 0, v_clc |-> 0]

NoCall == call = Null /\ ret = Null /\ loop = NoSearch

\* no thread has touched max_slopes
LazyIdle ==
    /\ lazy_object = Null
    /\ lazy_lock = 0
    /\ builds = 0
    /\ tpc = [t \in Threads |-> "idle"]
    /\ key = [t \in Threads |-> 0]
    /\ got = [t \in Threads |-> Null]

\* a check-then-build without mutual exclusion
MayBuild_unguarded(t) == TRUE

\* whether a thread that finds the table unbuilt may start building it
MayBuild(t) == lazy_lock = 0

\* the diameters the threads look up: the ends of the catalog and one between
LookupKeys == {200, 500, 2000}

\* max_slopes[k] is evaluated by thread t
Access(t) ==
    /\ tpc[t] = "idle"
    /\ \E k \in LookupKeys : key' = [key EXCEPT ![t] = k]
    /\ tpc' = [tpc EXCEPT ![t] = "enter"]
    /\ UNCHANGED <<lazy_object, lazy_lock, builds, got>>

\* the table is there: go on to read it
Enter(t) ==
    /\ tpc[t] = "enter"
    /\ lazy_object # Null
    /\ tpc' = [tpc EXCEPT ![t] = "read"]
    /\ UNCHANGED <<lazy_object, lazy_lock, builds, key, got>>

\* first access: the table is not there and nobody is building it
StartBuild(t) ==
    /\ tpc[t] = "enter"
    /\ lazy_object = Null
    /\ MayBuild(t)
    /\ lazy_lock' = t
    /\ tpc' = [tpc EXCEPT ![t] = "build"]
    /\ UNCHANGED <<lazy_object, builds, key, got>>

\* first access while another thread is building: block until it is done
Wait(t) ==
    /\ tpc[t] = "enter"
    /\ lazy_object = Null
    /\ ~MayBuild(t)
    /\ tpc' = [tpc EXCEPT ![t] = "wait"]
    /\ UNCHANGED <<lazy_object, lazy_lock, builds, key, got>>

Wake(t) ==
    /\ tpc[t] = "wait"
    /\ lazy_object # Null
    /\ tpc' = [tpc EXCEPT ![t] = "read"]
    /\ UNCHANGED <<lazy_object, lazy_lock, builds, key, got>>

\* the factory has run
FinishBuild(t) ==
    /\ tpc[t] = "build"
    /\ lazy_object' = max_slopes_factory
    /\ builds' = builds + 1
    /\ lazy_lock' = 0
    /\ tpc' = [tpc EXCEPT ![t] = "read"]
    /\ UNCHANGED <<key, got>>

Read(t) ==
    /\ tpc[t] = "read"
    /\ got' = [got EXCEPT ![t] = [k |-> key[t], v |-> lazy_object[key[t]]]]
    /\ tpc' = [tpc EXCEPT ![t] = "idle"]
    /\ key' = [key EXCEPT ![t] = 0]
    /\ UNCHANGED <<lazy_object, lazy_lock, builds>>


----------------------------------------------------------------------------
(* Inputs: the tables DataManager.__init__ copies from the network model *)

NodeTable == [J1 |-> [MaxDepth |-> Val(1600)],
              J2 |-> [MaxDepth |-> Val(2500)],
              O1 |-> [MaxDepth |-> Null]]

Row(inlet, outlet, geom1, length, slope, maxdperc, maxv, ininv, outinv) ==
    [InletNode |-> inlet, OutletNode |-> outlet, Geom1 |-> geom1, Length |-> length,
     SlopeFtPerFt |-> slope, MaxDPerc |-> maxdperc, MaxV |-> maxv,
     InletNodeInvert |-> ininv, OutletNodeInvert |-> outinv]

\* a regular conduit; one that ends in the outfall, overfilled and too fast;
\* one whose inlet node is not in the node table, too flat and too slow;
\* one with no slope whose outlet node is not in the node table; one that
\* carries no water; one that drops 20 m to a node that is not in the node
\* table
InputRows ==
    << Row("J1", "J2", 500, 100000, 10, 500, 1000, 10000, 9000),
       Row("J2", "O1", 500, 50000, 20, 900, 6000, 9000, 8000),
       Row("JX", "J1", 300, 100000, 1, 500, 500, 11000, 10000),
       Row("J1", "JX", 500, 100000, 0, 500, 1000, 10000, 10000),
       Row("J1", "J2", 500, 100000, 10, 0, 0, 10000, 9000),
       Row("J2", "JX", 500, 100000, 200, 500, 1000, 9000, -11000) >>

\* the conduit tables: NRows rows, regular conduits followed by one conduit
\* of any of the kinds above (the steps treat the rows independently)
InputTables ==
    { [i \in 1..NRows |-> InputRows[pick[i]]] :
        pick \in {p \in [1..NRows -> DOMAIN InputRows] :
                    \A i \in 1..NRows : i < NRows => p[i] = 1} }

FrostCategories == {"I", "II", "III", "iv", "Ii", "bogus"}

\* what a method without a return statement returns
None == [none |-> TRUE]

----------------------------------------------------------------------------
(* The pipeline as a state machine: any method may be called at any time *)

Init ==
    /\ df_conduits \in InputTables
    /\ df_nodes = NodeTable
    /\ frost_zone = Str("I")
    /\ err = NoErr
    /\ pc = "idle" /\ traces = <<>> /\ overflowing = <<>>
    /\ LazyIdle
    /\ NoCall

Call(res) ==
    /\ df_conduits' = res.df
    /\ err' = res.err
    /\ UNCHANGED <<df_nodes, frost_zone, traceVars, lazyVars, fnVars>>

CalculateConduitFilling ==
    Call(conduits_calculate_conduit_filling(df_conduits))

FillingIsValid == Call(conduits_filling_is_valid(df_conduits))

VelocityIsValid == Call(conduits_velocity_is_valid(df_conduits))

SlopePerMile == Call(conduits_slope_per_mile(df_conduits))

SlopesIsValid == Call(conduits_slopes_is_valid(df_conduits))

MaxDepth == Call(conduits_max_depth(df_conduits, df_nodes))

CalculateMaxDepth == Call(conduits_calculate_max_depth(df_conduits))

GroundElevation == Call(conduits_ground_elevation(df_conduits))

GroundCover == Call(conduits_ground_cover(df_conduits))

DepthIsValid == Call(conduits_depth_is_valid(df_conduits))

CoverageIsValid ==
    Call(conduits_coverage_is_valid(df_conduits, frost_zone))

FeatureEngineering ==
    Call(feature_engineering(df_conduits, df_nodes, frost_zone))

\* __enter__: set_frost_zone(self.frost_zone), then feature_engineering();
\* a frost zone that is already a depth has no upper()
DataManagerEnter ==
    /\ IF IsStr(frost_zone)
       THEN /\ frost_zone' = set_frost_zone(frost_zone.str)
            /\ df_conduits' = feature_engineering(df_conduits, df_nodes,
                                   set_frost_zone(frost_zone.str)).df
            /\ err' = feature_engineering(df_conduits, df_nodes,
                                   set_frost_zone(frost_zone.str)).err
       ELSE /\ err' = [step |-> "set_frost_zone", exc |-> "AttributeError"]
            /\ UNCHANGED <<df_conduits, frost_zone>>
    /\ UNCHANGED <<df_nodes, traceVars, lazyVars, fnVars>>

\* SwmmModel holds the conduit table after feature engineering
OptimizeConduitSlope ==
    /\ HasCols(df_conduits, {"Filling", "ValMaxFill", "ValMaxV", "ValMinV", "SlopePerMile",
                             "ValMaxSlope", "ValMinSlope", "InletMaxDepth", "OutletMaxDepth",
                             "InletGroundElevation", "OutletGroundElevation",
                             "InletGroundCover", "OutletGroundCover", "ValDepth",
                             "ValCoverage"})
    /\ Call(optimize_conduit_slope(df_conduits))

SetFrostZone ==
    \E cat \in FrostCategories :
        /\ frost_zone' = set_frost_zone(cat)
        /\ err' = NoErr
        /\ call' = [fn |-> "set_frost_zone", args |-> <<Str(cat)>>]
        /\ ret' = None
        /\ UNCHANGED <<df_conduits, df_nodes, traceVars, lazyVars, loop>>

Next ==
    \/ CalculateConduitFilling
    \/ FillingIsValid
    \/ VelocityIsValid
    \/ SlopePerMile
    \/ SlopesIsValid
    \/ MaxDepth
    \/ CalculateMaxDepth
    \/ GroundElevation
    \/ GroundCover
    \/ DepthIsValid
    \/ CoverageIsValid
    \/ FeatureEngineering
    \/ SetFrostZone
    \/ DataManagerEnter
    \/ OptimizeConduitSlope

Spec == Init /\ [][Next]_vars

----------------------------------------------------------------------------
(* inp_manage/inp.py: SwmmModel.overflowing_traces *)

MaxTrace == 3

Outfalls == <<"O1", "O2">>

ConduitNames == <<"C1", "C2", "C3", "C4", "C5">>

\* the conduits of the network: as many as the longest trace
ConduitIds == {ConduitNames[i] : i \in 1..MaxTrace}

Range(f) == {f[i] : i \in DOMAIN f}

\* list.index(x)
Index(list, x) == CHOOSE i \in DOMAIN list : list[i] = x /\ \A j \in DOMAIN list : list[j] = x => i <= j

\* a slice that leaves out its last position: list[start : end]
Slice_exclusive(list, start, end) == SubSeq(list, start, end - 1)

\* list[start : end + 1], with the positions counted from 1; empty when end < start
Slice(list, start, end) == SubSeq(list, start, end)

\* all_traces returns what swmmio's trace_from_node returns for each outfall:
\* a list of conduit ids, each conduit at most once, no conduit under two outfalls
TraceLists ==
    {t \in UNION {[1..n -> ConduitIds] : n \in 0..MaxTrace} :
        \A i, j \in DOMAIN t : i # j => t[i] # t[j]}

AllTraceResults ==
    {r \in [Range(Outfalls) -> TraceLists] :
        \A o1, o2 \in Range(Outfalls) : o1 # o2 => Range(r[o1]) \cap Range(r[o2]) = {}}

\* overflowing_pipes: the conduits whose ValMaxFill is 0
overflowing_pipes(df) == {c \in DOMAIN df : df[c].ValMaxFill = 0}

\* list(set(trace) & set(overflowing_conduits)): the overlap in the iteration
\* order of a set, which is any order; only its first and last element are used
overlapping_conduits(trace, df) == Range(trace) \cap overflowing_pipes(df)

EndPairs(overlap) ==
    {p \in overlap \X overlap : (p[1] = p[2]) <=> (Cardinality(overlap) = 1)}

\* the windows overflowing_traces can report for one trace
Windows(trace, df) ==
    {Slice(trace, Index(trace, p[1]), Index(trace, p[2])) :
        p \in EndPairs(overlapping_conduits(trace, df))}

InitTrace ==
    /\ df_conduits \in [ConduitIds -> [ValMaxFill : {0, 1}]]
    /\ df_nodes = NodeTable
    /\ frost_zone = Num(1200)
    /\ err = NoErr
    /\ pc = "start"
    /\ traces = <<>>
    /\ overflowing = <<>>
    /\ LazyIdle
    /\ NoCall

\* traces = self.all_traces()
AllTraces ==
    /\ pc = "start"
    /\ traces' \in AllTraceResults
    /\ pc' = "traced"
    /\ UNCHANGED <<df_conduits, pipeVars, overflowing, lazyVars, fnVars>>

\* the loop over the traces and the return
OverflowingTraces ==
    /\ pc = "traced"
    /\ LET hit == {o \in DOMAIN traces : overlapping_conduits(traces[o], df_conduits) # {}}
       IN  overflowing' \in
             {r \in [hit -> TraceLists] : \A o \in hit : r[o] \in Windows(traces[o], df_conduits)}
    /\ pc' = "done"
    /\ UNCHANGED <<df_conduits, pipeVars, traces, lazyVars, fnVars>>

NextTrace == AllTraces \/ OverflowingTraces

SpecTrace == InitTrace /\ [][NextTrace]_vars

----------------------------------------------------------------------------
(* Threads that look up max_slopes *)

InitLazy ==
    /\ df_conduits = <<>>
    /\ df_nodes = NodeTable
    /\ frost_zone = Num(1200)
    /\ err = NoErr
    /\ pc = "idle" /\ traces = <<>> /\ overflowing = <<>>
    /\ LazyIdle
    /\ NoCall

NextLazy ==
    \E t \in Threads :
        /\ (Access(t) \/ Enter(t) \/ StartBuild(t) \/ Wait(t) \/ Wake(t)
              \/ FinishBuild(t) \/ Read(t))
        /\ UNCHANGED <<df_conduits, pipeVars, traceVars, fnVars>>

SpecLazy == InitLazy /\ [][NextLazy]_vars

----------------------------------------------------------------------------
(* The functions of pipes/ called on their own, with arguments of any type. *)
(* An argument is a number (Num) or a str (Str); a call ends with the value *)
(* it returns (Ret) or the exception it raises (Exc).                       *)

\* max_filling: 0.827 * diameter, in units of 1e-6 m
call_max_filling(diameter) ==
    IF IsNumber(diameter)
    THEN IF max_filling_err(diameter.num) = "ok"
         THEN Ret(MaxFillingFactor * diameter.num)
         ELSE Exc("ValueError")
    ELSE Exc("TypeError")

\* a validate_filling that runs check_dimensions on its arguments first
call_validate_filling_checked(filling, diameter) ==
    IF IsExc(call_check_dimensions(filling, diameter))
    THEN call_check_dimensions(filling, diameter)
    ELSE Ret(filling.num * Scale <= call_max_filling(diameter).val)

\* a comparison with the diameter instead of max_filling(diameter)
call_validate_filling_full_pipe(filling, diameter) ==
    IF IsExc(call_max_filling(diameter)) THEN call_max_filling(diameter)
    ELSE IF ~IsNumber(filling) THEN Exc("TypeError")
    ELSE Ret(filling.num <= diameter.num)

\* validate_filling: filling <= max_filling(diameter); max_filling raises
\* before the comparison can
call_validate_filling(filling, diameter) ==
    IF IsExc(call_max_filling(diameter)) THEN call_max_filling(diameter)
    ELSE IF ~IsNumber(filling) THEN Exc("TypeError")
    ELSE Ret(filling.num * Scale <= call_max_filling(diameter).val)

\* a strict comparison: velocity < max_velocity()
call_validate_max_velocity_strict(velocity) ==
    IF ~IsNumber(velocity) THEN Exc("TypeError")
    ELSE Ret(velocity.num < max_velocity)

\* validate_max_velocity: velocity <= max_velocity()
call_validate_max_velocity(velocity) ==
    IF ~IsNumber(velocity) THEN Exc("TypeError")
    ELSE Ret(validate_max_velocity(velocity.num))

\* validate_min_velocity: velocity >= min_velocity()
call_validate_min_velocity(velocity) ==
    IF ~IsNumber(velocity) THEN Exc("TypeError")
    ELSE Ret(validate_min_velocity(velocity.num))

\* calc_f, calc_u, calc_rh: check_dimensions first
call_calc_f(filling, diameter) ==
    IF IsExc(call_check_dimensions(filling, diameter))
    THEN call_check_dimensions(filling, diameter)
    ELSE Ret(calc_f(filling.num, diameter.num))

call_calc_u(filling, diameter) ==
    IF IsExc(call_check_dimensions(filling, diameter))
    THEN call_check_dimensions(filling, diameter)
    ELSE Ret(calc_u(filling.num, diameter.num))

call_calc_rh(filling, diameter) ==
    IF IsExc(call_check_dimensions(filling, diameter))
    THEN call_check_dimensions(filling, diameter)
    ELSE Ret(calc_rh(filling.num, diameter.num))

\* the integer square and cube roots
ISqrt(n) == CHOOSE k \in 0..600 : k * k <= n /\ n < (k + 1) * (k + 1)

ICbrt(n) == CHOOSE k \in 0..350 : k * k * k <= n /\ n < (k + 1) * (k + 1) * (k + 1)

\* 1 / 0.013 * Rh ** (2 / 3) * slope ** 0.5 in mm/s, for a slope >= 0 in
\* thousandths of a per mille: with x = (Rh / 0.1 mm) ** (2/3) and
\* y = 1000 * (slope / 1e6) ** 0.5 the velocity is 0.16573 * x * y
calc_velocity(filling, diameter, slope) ==
    (((16573 * ICbrt((calc_rh(filling, diameter) \div 100) * (calc_rh(filling, diameter) \div 100)))
        \div 100) * ISqrt(slope)) \div 1000

\* the square root of a negative float is a complex number, not an error
Complex == [complex |-> TRUE]

\* calc_velocity: check_dimensions, slope / 1000, then the Manning formula
call_calc_velocity(filling, diameter, slope) ==
    IF IsExc(call_check_dimensions(filling, diameter))
    THEN call_check_dimensions(filling, diameter)
    ELSE IF ~IsNumber(slope) THEN Exc("TypeError")
    ELSE IF slope.num < 0 THEN Complex
    ELSE Ret(calc_velocity(filling.num, diameter.num, slope.num))

\* max_slope: check_dimensions(diameter, diameter), then the search, whose
\* result for the catalog diameters is the value held in max_slopes
call_max_slope(diameter) ==
    IF IsExc(call_check_dimensions(diameter, diameter))
    THEN call_check_dimensions(diameter, diameter)
    ELSE Ret(max_slopes(diameter.num))

\* validate_min_slope: slope >= min_slope(filling, diameter)
call_validate_min_slope(slope, filling, diameter) ==
    IF IsExc(call_min_slope(filling, diameter)) THEN call_min_slope(filling, diameter)
    ELSE IF ~IsNumber(slope) THEN Exc("TypeError")
    ELSE Ret(validate_min_slope(slope.num, filling.num, diameter.num))

\* a validator that looks the diameter up without checking the slope
call_validate_max_slope_unchecked(slope, diameter) ==
    IF ~IsNumber(slope) \/ ~IsNumber(diameter) THEN Exc("TypeError")
    ELSE IF diameter.num \notin Catalog THEN Exc("ValueError")
    ELSE Ret(validate_max_slope(slope.num, diameter.num))

\* validate_max_slope: the types, then the slope and the catalog, then the
\* comparison with max_slopes
call_validate_max_slope(slope, diameter) ==
    IF ~IsNumber(slope) \/ ~IsNumber(diameter) THEN Exc("TypeError")
    ELSE IF validate_max_slope_err(slope.num, diameter.num) # "ok"
         THEN Exc(validate_max_slope_err(slope.num, diameter.num))
    ELSE Ret(validate_max_slope(slope.num, diameter.num))

\* the arguments tried: the ends of the ranges, values beyond them, a str
NonNumeric == Str("four")

Diameters == {Num(d) : d \in {-300, 100, 200, 500, 1000, 2000, 2100}} \cup {NonNumeric}

\* fillings of a pipe: negative, empty, a quarter, half, nine tenths, full,
\* overfull, and a str
FillingsOf(diameter) ==
    IF IsNumber(diameter)
    THEN {Num(f) : f \in {-500, 0, diameter.num \div 4, diameter.num \div 2,
                          (9 * diameter.num) \div 10, diameter.num, diameter.num + 100}}
         \cup {NonNumeric}
    ELSE {Num(0), Num(500), NonNumeric}

\* fillings around the limit 0.827 * diameter
FillingsAtLimit(diameter) ==
    IF IsNumber(diameter)
    THEN {Num(f) : f \in {-500, 0, (MaxFillingFactor * diameter.num) \div Scale,
                          (MaxFillingFactor * diameter.num) \div Scale + 1,
                          diameter.num, diameter.num + 100}}
         \cup {NonNumeric}
    ELSE {Num(0), Num(500), NonNumeric}

Velocities == {Num(v) : v \in {-700, 0, 699, 700, 701, 3000, 5000, 5001, 15000}}
                \cup {NonNumeric}

\* slopes in per mille
Slopes == {Num(sl) : sl \in {-2500, 0, 100, 500, 2500, 10700, 10701, 250000}} \cup {NonNumeric}

Called(fn, args, res) ==
    /\ call' = [fn |-> fn, args |-> args]
    /\ ret' = res
    /\ UNCHANGED <<df_conduits, pipeVars, traceVars, lazyVars, loop>>

CheckDimensions ==
    \E d \in Diameters : \E f \in FillingsOf(d) :
        Called("check_dimensions", <<f, d>>, call_check_dimensions(f, d))

MaxFilling ==
    \E d \in Diameters : Called("max_filling", <<d>>, call_max_filling(d))

ValidateFilling ==
    \E d \in Diameters : \E f \in FillingsAtLimit(d) :
        Called("validate_filling", <<f, d>>, call_validate_filling(f, d))

ValidateMaxVelocity ==
    \E v \in Velocities : Called("validate_max_velocity", <<v>>, call_validate_max_velocity(v))

ValidateMinVelocity ==
    \E v \in Velocities : Called("validate_min_velocity", <<v>>, call_validate_min_velocity(v))

CalcF ==
    \E d \in Diameters : \E f \in FillingsOf(d) :
        Called("calc_f", <<f, d>>, call_calc_f(f, d))

CalcU ==
    \E d \in Diameters : \E f \in FillingsOf(d) :
        Called("calc_u", <<f, d>>, call_calc_u(f, d))

CalcRh ==
    \E d \in Diameters : \E f \in FillingsOf(d) :
        Called("calc_rh", <<f, d>>, call_calc_rh(f, d))

MinSlope ==
    \E d \in Diameters : \E f \in FillingsOf(d) :
        Called("min_slope", <<f, d>>, call_min_slope(f, d))

CalcVelocity ==
    \E sl \in Slopes : \E d \in Diameters : \E f \in FillingsOf(d) :
        Called("calc_velocity", <<f, d, sl>>, call_calc_velocity(f, d, sl))

MaxSlope ==
    \E d \in Diameters : Called("max_slope", <<d, d>>, call_max_slope(d))

ValidateMinSlope ==
    \E sl \in Slopes : \E d \in Diameters : \E f \in FillingsOf(d) :
        Called("validate_min_slope", <<sl, f, d>>, call_validate_min_slope(sl, f, d))

\* diameters inside [0.2, 2.0] that the catalog does not hold, and one more
\* that it holds
OffCatalog == {Num(250), Num(1100), Num(1200)}

ValidateMaxSlope ==
    \E sl \in Slopes : \E d \in Diameters \cup OffCatalog :
        Called("validate_max_slope", <<sl, d>>, call_validate_max_slope(sl, d))

InitCalls ==
    /\ df_conduits = <<>>
    /\ df_nodes = NodeTable
    /\ frost_zone = Str("I")
    /\ err = NoErr
    /\ pc = "idle" /\ traces = <<>> /\ overflowing = <<>>
    /\ LazyIdle
    /\ NoCall

NextCalls ==
    \/ CheckDimensions
    \/ MaxFilling
    \/ ValidateFilling
    \/ ValidateMaxVelocity
    \/ ValidateMinVelocity
    \/ CalcF
    \/ CalcU
    \/ CalcRh
    \/ MinSlope
    \/ CalcVelocity
    \/ MaxSlope
    \/ ValidateMinSlope
    \/ ValidateMaxSlope

SpecCalls == InitCalls /\ [][NextCalls]_vars

----------------------------------------------------------------------------
(* pipes/round.py: the search of max_slope, one iteration at a time.       *)
(* Slopes are in 1e-6 per mille and velocities in 1e-4 m/s here.           *)

\* the integer square root, by bisection
RECURSIVE SqrtBetween(_, _, _)
SqrtBetween(n, lo, hi) ==
    IF lo = hi THEN lo
    ELSE IF ((lo + hi + 1) \div 2) * ((lo + hi + 1) \div 2) <= n
         THEN SqrtBetween(n, (lo + hi + 1) \div 2, hi)
         ELSE SqrtBetween(n, lo, (lo + hi + 1) \div 2 - 1)

\* min_slope(diameter, diameter): calc_rh of the full pipe is diameter / 4,
\* which leaves 4 * (theta / g) * (1 / diameter)
min_slope_full_bore(diameter) == (4 * ThetaOverG * Scale) \div diameter

\* 1 / 0.013 * (diameter / 4) ** (2 / 3) / 1000 ** 0.5, in 1e-5, for the
\* catalog diameters
FullBoreFactor(diameter) ==
    CASE diameter = 200 -> 33014  [] diameter = 300 -> 43261  [] diameter = 400 -> 52407
      [] diameter = 500 -> 60813  [] diameter = 600 -> 68673  [] diameter = 700 -> 76105
      [] diameter = 800 -> 83191  [] diameter = 900 -> 89987  [] diameter = 1000 -> 96535
      [] diameter = 1200 -> 109011 [] diameter = 1500 -> 126496 [] diameter = 2000 -> 153239

\* slope ** 0.5 as the integer root q and the next three decimals r:
\* (q + r / 1000) ** 2 = slope up to the square of r / 1000
SqrtThousandths(slope) ==
    ((slope - SqrtBetween(slope, 0, 30000) * SqrtBetween(slope, 0, 30000)) * 1000)
        \div (2 * SqrtBetween(slope, 0, 30000))

\* calc_velocity(diameter, diameter, slope) for a slope of at least 1
calc_velocity_full_bore(diameter, slope) ==
    (FullBoreFactor(diameter) * SqrtBetween(slope, 0, 30000)
       + (FullBoreFactor(diameter) * SqrtThousandths(slope)) \div 1000) \div 10000

\* round(v_clc, 2) == float(v_max)
RoundsToMax(v) == 10 * max_velocity - 50 <= v /\ v < 10 * max_velocity + 50

\* max_slope(diameter) up to the loop: check_dimensions passes for a catalog
\* diameter, start_slope = slope = min_slope(diameter, diameter), v_clc = 0.0
StartSearch ==
    \E d \in Catalog :
        /\ loop.pc # "loop"
        /\ loop' = [pc |-> "loop", diameter |-> d,
                    start_slope |-> min_slope_full_bore(d),
                    slope |-> min_slope_full_bore(d), v_clc |-> 0]
        /\ call' = [fn |-> "max_slope", args |-> <<Num(d), Num(d)>>]
        /\ ret' = Null
        /\ UNCHANGED <<df_conduits, pipeVars, traceVars, lazyVars>>

\* a pass that retreats by the whole step and never halves it
Iterate_fixed_step ==
    /\ loop.pc = "loop"
    /\ ~RoundsToMax(loop.v_clc)
    /\ LET v == calc_velocity_full_bore(loop.diameter, loop.slope)
       IN  loop' = IF v < 10 * max_velocity
                   THEN [loop EXCEPT !.v_clc = v, !.slope = loop.slope + loop.start_slope]
                   ELSE [loop EXCEPT !.v_clc = v, !.slope = loop.slope - loop.start_slope]
    /\ UNCHANGED <<df_conduits, pipeVars, traceVars, lazyVars, call, ret>>

\* one pass of the while loop
Iterate ==
    /\ loop.pc = "loop"
    /\ ~RoundsToMax(loop.v_clc)
    /\ LET v == calc_velocity_full_bore(loop.diameter, loop.slope)
       IN  loop' = IF v < 10 * max_velocity
                   THEN [loop EXCEPT !.v_clc = v, !.slope = loop.slope + loop.start_slope]
                   ELSE [loop EXCEPT !.v_clc = v,
                                     !.start_slope = loop.start_slope \div 2,
                                     !.slope = loop.slope - loop.start_slope \div 2]
    /\ UNCHANGED <<df_conduits, pipeVars, traceVars, lazyVars, call, ret>>

\* the loop ends and max_slope returns slope (in 1e-3 per mille in ret)
ReturnSlope ==
    /\ loop.pc = "loop"
    /\ RoundsToMax(loop.v_clc)
    /\ loop' = [loop EXCEPT !.pc = "returned"]
    /\ ret' = Ret(loop.slope \div Scale)
    /\ UNCHANGED <<df_conduits, pipeVars, traceVars, lazyVars, call>>

NextSearch == StartSearch \/ Iterate \/ ReturnSlope

\* a call of max_slope, once started, runs on
SpecSearch ==
    InitCalls /\ [][NextSearch]_vars /\ WF_vars(Iterate) /\ WF_vars(ReturnSlope)

----------------------------------------------------------------------------
(* Properties of overflowing_traces (SpecTrace) *)

\* the positions in a trace of the conduits whose ValMaxFill is 0
InvalidPositions(o) == {i \in DOMAIN traces[o] : df_conduits[traces[o][i]].ValMaxFill = 0}

SetMin(S) == CHOOSE x \in S : \A y \in S : x <= y

SetMax(S) == CHOOSE x \in S : \A y \in S : x >= y

\* C2: for every outfall, no window is reported when no conduit of its trace
\* has ValMaxFill = 0; otherwise the window is exactly the trace from the
\* smallest to the largest position of an invalid conduit, and is not empty.
C2_WindowIsMinMaxSlice ==
    pc = "done" =>
        \A o \in DOMAIN traces :
            IF InvalidPositions(o) = {}
            THEN o \notin DOMAIN overflowing
            ELSE /\ o \in DOMAIN overflowing
                 /\ overflowing[o] # <<>>
                 /\ overflowing[o] = SubSeq(traces[o], SetMin(InvalidPositions(o)),
                                                       SetMax(InvalidPositions(o)))

\* C7: when exactly one conduit of a trace is invalid, the window reported for
\* the outfall is that one conduit.
C7_SingleInvalidWindow ==
    pc = "done" =>
        \A o \in DOMAIN traces :
            \A i \in DOMAIN traces[o] :
                InvalidPositions(o) = {i} =>
                    /\ o \in DOMAIN overflowing
                    /\ overflowing[o] = <<traces[o][i]>>

\* the scenario of C7: the trace of O1 is [C2, C1], C1 is invalid, C2 is valid
C7_Witness ==
    /\ pc = "done"
    /\ traces["O1"] = <<"C2", "C1">>
    /\ df_conduits["C1"].ValMaxFill = 0
    /\ df_conduits["C2"].ValMaxFill = 1
    /\ "O1" \in DOMAIN overflowing
    /\ overflowing["O1"] = <<"C1">>

----------------------------------------------------------------------------
(* Properties of the lazily built max_slopes (SpecLazy) *)

\* C8: the table is not built before the first access; the factory runs at
\* most once, also when first accesses overlap; once built the table never
\* changes and every lookup of a diameter reads the table's value for it.
C8_BuiltOnce ==
    /\ []((\A t \in Threads : tpc[t] = "idle" /\ got[t] = Null)
            => (lazy_object = Null /\ builds = 0))
    /\ [](builds <= 1)
    /\ [](\A t \in Threads : got[t] # Null => got[t].v = max_slopes(got[t].k))
    /\ [](\A t, u \in Threads :
            (got[t] # Null /\ got[u] # Null /\ got[t].k = got[u].k) => got[t].v = got[u].v)
    /\ [][lazy_object # Null => lazy_object' = lazy_object]_vars

\* a thread found the table unbuilt while another was building it, and the
\* table has since been built
C8_Witness ==
    /\ builds = 1
    /\ lazy_object # Null
    /\ \E t, u \in Threads : tpc[t] = "wait" /\ got[u] # Null

----------------------------------------------------------------------------
(* Properties of the enrichment steps (Spec) *)

Raised(e, step, exc) == e = [step |-> step, exc |-> exc]

\* every row passes validate_max_slope: a positive slope and a catalog diameter
MaxSlopePasses == \A i \in Rows : df_conduits[i].SlopeFtPerFt > 0 /\ df_conduits[i].Geom1 \in Catalog

DepthCols == {"InletMaxDepth", "OutletMaxDepth"}

ElevationCols == {"InletGroundElevation", "OutletGroundElevation"}

CoverCols == {"InletGroundCover", "OutletGroundCover"}

C6_SlopesWithoutFillingMissingColumn ==
    [][ ("Filling" \notin Cols /\ SlopesIsValid)
            => (err'.exc = "MissingColumn" /\ "ValMinSlope" \notin DOMAIN df_conduits'[1]) ]_vars

\* C6 as amended: slopes_is_valid on a table without Filling always raises and
\* adds no ValMinSlope; the error is the missing-column error when every row
\* passes the max-slope validation (ValMaxSlope is then already added), and
\* the ValueError of that validation otherwise (nothing is added).
C6_SlopesWithoutFillingFails ==
    [][ ("Filling" \notin Cols /\ SlopesIsValid)
            => /\ err' # NoErr
               /\ "ValMinSlope" \notin DOMAIN df_conduits'[1]
               /\ MaxSlopePasses
                    => (/\ Raised(err', "conduits_slopes_is_valid", "MissingColumn")
                        /\ DOMAIN df_conduits'[1] = Cols \cup {"ValMaxSlope"})
               /\ ~MaxSlopePasses
                    => (/\ Raised(err', "conduits_slopes_is_valid", "ValueError")
                        /\ df_conduits' = df_conduits) ]_vars

\* slopes_is_valid was called without Filling, every row passed the max-slope
\* validation, and the missing column was reported
C6_Witness ==
    /\ Raised(err, "conduits_slopes_is_valid", "MissingColumn")
    /\ "Filling" \notin Cols
    /\ "ValMaxSlope" \in Cols
    /\ "ValMinSlope" \notin Cols

\* C9: the join never raises and gives a null depth for an inlet or outlet
\* node that is not in the node table; a null inlet depth is left null by the
\* fallback fill and makes the inlet ground elevation and cover null.
C9_MissingNodeIsNull ==
    /\ [][ MaxDepth =>
             /\ err' = NoErr
             /\ \A i \in Rows :
                  /\ df_conduits[i].InletNode \notin DOMAIN df_nodes
                        => df_conduits'[i].InletMaxDepth = Null
                  /\ df_conduits[i].OutletNode \notin DOMAIN df_nodes
                        => df_conduits'[i].OutletMaxDepth = Null ]_vars
    /\ [][ (DepthCols \subseteq Cols /\ CalculateMaxDepth) =>
             \A i \in Rows : df_conduits[i].InletMaxDepth = Null
                                => df_conduits'[i].InletMaxDepth = Null ]_vars
    /\ [](\A i \in Rows :
            ("InletMaxDepth" \in Cols /\ df_conduits[i].InletMaxDepth = Null)
                => /\ "InletGroundElevation" \in Cols => df_conduits[i].InletGroundElevation = Null
                   /\ "InletGroundCover" \in Cols => df_conduits[i].InletGroundCover = Null)

\* a conduit whose inlet node is unknown went through the join, the fallback
\* fill, ground elevation and ground cover without an error
C9_Witness ==
    /\ err = NoErr
    /\ CoverCols \subseteq Cols
    /\ \E i \in Rows :
        /\ df_conduits[i].InletNode \notin DOMAIN df_nodes
        /\ df_conduits[i].InletMaxDepth = Null
        /\ df_conduits[i].OutletMaxDepth # Null
        /\ df_conduits[i].InletGroundElevation = Null
        /\ df_conduits[i].InletGroundCover = Null

\* C10: the fallback fill writes InletMaxDepth - Length * SlopeFtPerFt into
\* OutletMaxDepth on exactly the rows where it is null, so that none stays
\* null where the inlet depth is known, and changes nothing else.
C10_FallbackFill ==
    [][ (DepthCols \subseteq Cols /\ CalculateMaxDepth) =>
          /\ err' = NoErr
          /\ \A i \in Rows :
               /\ DOMAIN df_conduits'[i] = Cols
               /\ \A c \in Cols \ {"OutletMaxDepth"} : df_conduits'[i][c] = df_conduits[i][c]
               /\ df_conduits[i].OutletMaxDepth # Null
                    => df_conduits'[i].OutletMaxDepth = df_conduits[i].OutletMaxDepth
               /\ (df_conduits[i].OutletMaxDepth = Null /\ df_conduits[i].InletMaxDepth # Null)
                    => df_conduits'[i].OutletMaxDepth =
                         <<df_conduits[i].InletMaxDepth[1]
                            - (df_conduits[i].Length * df_conduits[i].SlopeFtPerFt) \div Scale>>
               /\ (df_conduits[i].OutletMaxDepth = Null /\ df_conduits[i].InletMaxDepth = Null)
                    => df_conduits'[i].OutletMaxDepth = Null ]_vars

\* the conduit into the outfall got 2.5 - 50 * 0.02 = 1.5 while a conduit
\* between two junctions kept the depth of its outlet node
C10_Witness ==
    /\ err = NoErr
    /\ DepthCols \subseteq Cols
    /\ \E i, j \in Rows :
        /\ df_conduits[i].OutletNode = "O1"
        /\ df_conduits[i].OutletMaxDepth = <<1500>>
        /\ df_conduits[j].OutletNode = "J2"
        /\ df_conduits[j].OutletMaxDepth = <<2500>>

----------------------------------------------------------------------------
(* Properties of the functions of pipes/ (SpecCalls) *)

IsCall(fns) == call # Null /\ call.fn \in fns

Validators == {"validate_filling", "validate_max_velocity", "validate_min_velocity",
               "validate_min_slope", "validate_max_slope"}

\* the arguments of the last call by their role
SlopeArgs ==
    IF IsCall({"validate_min_slope", "validate_max_slope"}) THEN {call.args[1]} ELSE {}

FillingArgs ==
    IF IsCall({"validate_filling"}) THEN {call.args[1]}
    ELSE IF IsCall({"validate_min_slope"}) THEN {call.args[2]}
    ELSE {}

DiameterArgs ==
    IF IsCall({"validate_filling", "validate_max_slope"}) THEN {call.args[2]}
    ELSE IF IsCall({"validate_min_slope"}) THEN {call.args[3]}
    ELSE {}

AllNumeric == \A i \in DOMAIN call.args : IsNumber(call.args[i])

InRange(d) == MinDiameter <= d /\ d <= MaxDiameter

NegativeSlope == \E sl \in SlopeArgs : IsNumber(sl) /\ sl.num < 0

\* filling > diameter
Overfull ==
    \E f \in FillingArgs : \E d \in DiameterArgs :
        IsNumber(f) /\ IsNumber(d) /\ f.num > d.num

DiameterOutOfRange == \E d \in DiameterArgs : IsNumber(d) /\ ~InRange(d.num)

\* no numeric argument is outside the domain of the validator called
NumbersInDomain ==
    /\ \A sl \in SlopeArgs : IsNumber(sl) => sl.num > 0
    /\ \A d \in DiameterArgs : IsNumber(d) => d.num \in Catalog
    /\ \A f \in FillingArgs : IsNumber(f) => f.num > 0
    /\ ~Overfull

DimensionChecked == {"check_dimensions", "calc_f", "calc_u", "calc_rh",
                     "calc_velocity", "min_slope", "max_slope"}

C13_MaxSlopeRule ==
    IsCall({"validate_max_slope"}) =>
        IF ~IsNumber(call.args[1]) \/ ~IsNumber(call.args[2])
        THEN ret = Exc("TypeError")
        ELSE IF call.args[1].num <= 0 \/ call.args[2].num \notin Catalog
        THEN ret = Exc("ValueError")
        ELSE ret = Ret(call.args[1].num <= max_slopes_factory[call.args[2].num])

\* a slope equal to the table value of the 2.0 m pipe was accepted
C13_Witness ==
    /\ IsCall({"validate_max_slope"})
    /\ call.args = <<Num(10700), Num(2000)>>
    /\ ret = Ret(TRUE)

-----------------------------------------------------------------------------
(* Properties of the frost zone (Spec) *)

\* the category of the last call of set_frost_zone, in upper case
LastCategory ==
    CASE call.args[1].str \in {"I", "i"} -> "I"
      [] call.args[1].str \in {"II", "ii", "Ii", "iI"} -> "II"
      [] call.args[1].str \in {"III", "iii"} -> "III"
      [] call.args[1].str \in {"IV", "iv", "iV", "Iv"} -> "IV"
      [] OTHER -> "unrecognized"

\* C16: once set_frost_zone has been called, and whatever was called before
\* and whatever step ran since, the stored threshold is the depth of the
\* category passed in the last call, in any letter case: I -> 1.0,
\* II -> 1.2, III -> 1.4, IV -> 1.6, and 1.2 for any other string; the
\* call returns and does not raise.
C16_FrostZoneOfLastCall ==
    IsCall({"set_frost_zone"}) =>
        /\ ret = None
        /\ LastCategory = "I" => frost_zone = Num(1000)
        /\ LastCategory = "II" => frost_zone = Num(1200)
        /\ LastCategory = "III" => frost_zone = Num(1400)
        /\ LastCategory = "IV" => frost_zone = Num(1600)
        /\ LastCategory = "unrecognized" => frost_zone = Num(1200)

\* the cover was validated against 1.6 m after the zone was set with "iv"
C16_Witness ==
    /\ IsCall({"set_frost_zone"})
    /\ call.args = <<Str("iv")>>
    /\ frost_zone = Num(1600)
    /\ Len(df_conduits) > 0
    /\ "ValCoverage" \in DOMAIN df_conduits[1]

\* every row's ValCoverage is 1 exactly when both of its covers are known
\* and at least depth
CoveredTo(df, depth) ==
    \A i \in DOMAIN df :
        df[i].ValCoverage =
            IF /\ df[i].InletGroundCover # Null /\ df[i].OutletGroundCover # Null
               /\ df[i].InletGroundCover[1] >= depth
               /\ df[i].OutletGroundCover[1] >= depth
            THEN 1 ELSE 0

\* the frost zone is as the constructor left it: no category was configured
FrostZoneUnset == frost_zone = Str("I")

ValidDimensions ==
    /\ IsNumber(call.args[1]) /\ IsNumber(call.args[2])
    /\ 0 <= call.args[1].num /\ call.args[1].num <= call.args[2].num
    /\ InRange(call.args[2].num)

\* C19: for a valid diameter calc_rh returns 0 when the filling is 0 and
\* raises nothing; for every other valid filling it returns the quotient
\* of what calc_f and calc_u return for the same arguments, which for the
\* half-full and the full pipe is a quarter of the diameter (to 0.05 mm).
C19_HydraulicRadius ==
    (IsCall({"calc_rh"}) /\ ValidDimensions) =>
        /\ ~IsExc(ret)
        /\ call.args[1].num = 0 => ret = Ret(0)
        /\ call.args[1].num # 0 =>
              /\ call_calc_u(call.args[1], call.args[2]).val > 0
              /\ ret = Ret(Quotient(call_calc_f(call.args[1], call.args[2]).val,
                                    call_calc_u(call.args[1], call.args[2]).val))
              /\ ret.val > 0
        /\ (call.args[1].num # 0 /\ (2 * call.args[1].num = call.args[2].num
                                      \/ call.args[1].num = call.args[2].num)) =>
              /\ ret.val - 250 * call.args[2].num <= 50
              /\ 250 * call.args[2].num - ret.val <= 50

\* calc_rh was called for an empty 1.0 m pipe and returned 0
C19_Witness ==
    /\ IsCall({"calc_rh"})
    /\ call.args = <<Num(0), Num(1000)>>
    /\ ret = Ret(0)

-----------------------------------------------------------------------------
(* Properties of the whole pipeline (Spec) *)

\* the columns the steps add
DerivedCols ==
    {"Filling", "ValMaxFill", "ValMaxV", "ValMinV", "SlopePerMile", "ValMaxSlope",
     "ValMinSlope", "InletMaxDepth", "OutletMaxDepth", "InletGroundElevation",
     "OutletGroundElevation", "InletGroundCover", "OutletGroundCover", "ValDepth",
     "ValCoverage"}

\* the columns of the network model
InputCols ==
    {"InletNode", "OutletNode", "Geom1", "Length", "SlopeFtPerFt", "MaxDPerc", "MaxV",
     "InletNodeInvert", "OutletNodeInvert"}

\* every conduit has a catalog diameter, a positive slope and carries water
WellFormed(df) ==
    \A i \in DOMAIN df :
        /\ df[i].Geom1 \in Catalog
        /\ df[i].SlopeFtPerFt > 0
        /\ df[i].MaxDPerc > 0 /\ df[i].MaxDPerc <= Scale

\* C21: feature_engineering runs every step after the steps whose columns
\* it reads: run on a network as it was loaded (and, entered as a context,
\* on any table), it never ends in a missing-column error, and on a
\* well-formed network with the frost zone configured (by set_frost_zone,
\* or by entering the context) it ends without error and with every
\* derived column in the table.
C21_StepsAfterTheirInputs ==
    [][/\ (Cols = InputCols /\ FeatureEngineering) =>
             /\ err'.exc # "MissingColumn"
             /\ (IsNumber(frost_zone) /\ WellFormed(df_conduits)) =>
                   /\ err' = NoErr
                   /\ HasCols(df_conduits', DerivedCols)
       /\ (FrostZoneUnset /\ DataManagerEnter) =>
             /\ err'.exc # "MissingColumn"
             /\ WellFormed(df_conduits) =>
                   /\ err' = NoErr
                   /\ HasCols(df_conduits', DerivedCols)]_vars

\* the context was entered on a network as it was loaded and the run ended
\* with every derived column
C21_Witness ==
    /\ call = Null
    /\ frost_zone = Num(1000)
    /\ err = NoErr
    /\ WellFormed(df_conduits)
    /\ Cols = InputCols \cup DerivedCols

\* the steps of feature_engineering in their order, each with its columns
StepOrder ==
    << [step |-> "conduits_calculate_conduit_filling", cols |-> {"Filling"}],
       [step |-> "conduits_filling_is_valid", cols |-> {"ValMaxFill"}],
       [step |-> "conduits_velocity_is_valid", cols |-> {"ValMaxV", "ValMinV"}],
       [step |-> "conduits_slope_per_mile", cols |-> {"SlopePerMile"}],
       [step |-> "conduits_slopes_is_valid", cols |-> {"ValMaxSlope", "ValMinSlope"}],
       [step |-> "conduits_max_depth", cols |-> {"InletMaxDepth", "OutletMaxDepth"}],
       [step |-> "conduits_calculate_max_depth", cols |-> {"OutletMaxDepth"}],
       [step |-> "conduits_ground_elevation",
        cols |-> {"InletGroundElevation", "OutletGroundElevation"}],
       [step |-> "conduits_ground_cover", cols |-> {"InletGroundCover", "OutletGroundCover"}],
       [step |-> "conduits_depth_is_valid", cols |-> {"ValDepth"}],
       [step |-> "conduits_coverage_is_valid", cols |-> {"ValCoverage"}] >>

\* the columns of the steps that come before the named step
ColsBefore(step) ==
    UNION {StepOrder[i].cols : i \in {j \in DOMAIN StepOrder :
                                        \E k \in DOMAIN StepOrder :
                                            StepOrder[k].step = step /\ j < k}}

\* the table after the action agrees with the table before it on every
\* column the table had
EarlierColumnsKept ==
    /\ Len(df_conduits') = Len(df_conduits)
    /\ \A i \in DOMAIN df_conduits : \A c \in DOMAIN df_conduits[i] :
          c \in DOMAIN df_conduits'[i] /\ df_conduits'[i][c] = df_conduits[i][c]

\* the first row that validate_min_slope raises for, when validate_max_slope
\* passes for every row
MinSlopeRaises ==
    /\ MaxSlopePasses
    /\ \E i \in Rows : min_slope_err(df_conduits[i].Filling, df_conduits[i].Geom1) # "ok"

ValidityCols ==
    {"ValMaxFill", "ValMaxV", "ValMinV", "ValMaxSlope", "ValMinSlope", "ValDepth",
     "ValCoverage"}

\* C27: every validity flag in the table (ValMaxFill, ValMaxV, ValMinV,
\* ValMaxSlope, ValMinSlope, ValDepth, ValCoverage) is 0 or 1 in every row,
\* never null, also in the rows whose depths, elevations or covers are null.
C27_FlagsAreZeroOrOne ==
    \A i \in Rows : \A c \in ValidityCols \cap Cols : df_conduits[i][c] \in {0, 1}

\* all seven flags are in the table and a row whose inlet elevation and
\* cover are null has ValDepth = 0 and ValCoverage = 0
C27_Witness ==
    /\ ValidityCols \subseteq Cols
    /\ \E i \in Rows :
          /\ df_conduits[i].InletGroundElevation = Null
          /\ df_conduits[i].InletGroundCover = Null
          /\ df_conduits[i].ValDepth = 0
          /\ df_conduits[i].ValCoverage = 0

\* the ground elevations of row i are the inverts plus the max depths
ElevationsDerived(i) ==
    /\ df_conduits[i].InletGroundElevation =
          NAdd(Val(df_conduits[i].InletNodeInvert), df_conduits[i].InletMaxDepth)
    /\ df_conduits[i].OutletGroundElevation =
          NAdd(Val(df_conduits[i].OutletNodeInvert), df_conduits[i].OutletMaxDepth)

\* C28: conduits_ground_cover computes the cover of both ends by the same
\* rule, ground elevation - invert - diameter, so with the ground elevation
\* being invert + max depth each cover is that end's max depth minus the
\* diameter, whatever the invert.
C28_CoverIsDepthMinusDiameter ==
    [][(HasCols(df_conduits, DepthCols \cup ElevationCols) /\ GroundCover) =>
          \A i \in Rows : ElevationsDerived(i) =>
              /\ df_conduits'[i].InletGroundCover =
                    NSub(df_conduits[i].InletMaxDepth, Val(df_conduits[i].Geom1))
              /\ df_conduits'[i].OutletGroundCover =
                    NSub(df_conduits[i].OutletMaxDepth, Val(df_conduits[i].Geom1))]_vars

\* the depth is a number and not below -max_depth_value
NotBelowMaxDepth(depth) == depth # Null /\ depth[1] >= -max_depth_value

-----------------------------------------------------------------------------
(* Properties of the solvers' failures (SpecCalls) *)

Solvers == {"calc_f", "calc_u", "calc_rh", "calc_velocity", "max_filling",
            "min_slope", "max_slope"}

\* C23: a solver that raises, raises ValueError or TypeError and nothing
\* else, for every input, a valid diameter with a filling of 0 included.
C23_TwoErrorKinds ==
    (IsCall(Solvers) /\ IsExc(ret)) => ret \in {Exc("ValueError"), Exc("TypeError")}

-----------------------------------------------------------------------------
(* Properties of the search of max_slope (SpecSearch) *)

\* C24: for every catalog diameter the search of max_slope, once started,
\* comes to an end: after finitely many passes the velocity computed rounds
\* to 5.00 and max_slope returns.
C24_SearchTerminates == (loop.pc = "loop") ~> (loop.pc = "returned")

\* max_slope(0.2) has returned, after a last velocity that rounds to 5.00
C24_Witness ==
    /\ loop.pc = "returned"
    /\ loop.diameter = 200
    /\ RoundsToMax(loop.v_clc)
    /\ IsCall({"max_slope"}) /\ ret # Null

\* C25: the slope that max_slope returns for a catalog diameter gives the
\* full pipe a velocity that rounds to 5.00 m/s.
C25_ReturnedSlopeGivesMaxVelocity ==
    loop.pc = "returned" =>
        RoundsToMax(calc_velocity_full_bore(loop.diameter, loop.slope))

====
